---- MODULE Spec2Model ----
(***************************************************************************)
(* Reconciliation handlers of the Azure DevOps provider: feed, feed        *)
(* permission, audit stream and group entitlement.  One invocation is a    *)
(* process that advances one Gateway call at a time; the Gateway's answer  *)
(* to each call is chosen by the environment.  The remote grant collection *)
(* of the feed is kept as state.                                           *)
(***************************************************************************)
EXTENDS Integers, Sequences, FiniteSets, TLC

\* ------------------------------------------------------------------ bounds

\* Number of remote ids the Gateway can hand out per entity kind.
MaxIds == 2

\* Longest grant collection the selection is checked on.
MaxGrants == 3

\* Longest list of groups the Gateway answers a project's groups with.
MaxGroups == 3

\* ------------------------------------------------------------- vocabulary

Procs == {"p1", "p2"}
\* Invocations are synchronous and one at a time under Spec.
SeqProcs == {"p1"}

Ops == {"Create", "Read", "Update", "Delete"}

\* Outcome classes of a Gateway call (utils.ResponseWasNotFound tells
\* NotFound from every other failure by the response's status code).
Outs == {"ok", "NotFound", "Other"}
Fails == {"NotFound", "Other"}

\* ----------------------------------------------------------------- errors

\* A Go error value: nil is the empty chain.  nf is TRUE only for the
\* Gateway's own 404 error value; fmt.Errorf keeps the text and drops the type.
Nil == [nf |-> FALSE, chain |-> <<>>]

IsErr(e) == e.chain # <<>>

\* The error value a failed Gateway call returns.
GwErr(verb, out) == [nf |-> (out = "NotFound"), chain |-> <<<<verb, out>>>>]

\* fmt.Errorf("<prefix> ... %+v", err)
Errorf(prefix, e) == [nf |-> FALSE, chain |-> <<<<"wrap", prefix>>>> \o e.chain]

\* fmt.Errorf with no wrapped error
ErrNew(msg) == [nf |-> FALSE, chain |-> <<<<"new", msg>>>>]

ResponseWasNotFound(e) == IsErr(e) /\ e.nf

Carries(e, verb, out) == \E i \in 1..Len(e.chain) : e.chain[i] = <<verb, out>>

\* ------------------------------------------------------------------ state

VARIABLES
    inv,          \* inv[p]: the invocation process p runs (handler position, ResourceData, call log, result)
    grants,       \* the feed's remote grant collection, in collection order
    noneRemoves,  \* remote policy: a grant set to role None is dropped from the collection
    rt            \* the adapter round trip harness: remote entity in, flattened data, expanded entity out

vars == <<inv, grants, noneRemoves, rt>>

Call(verb, out, val) == [verb |-> verb, out |-> out, val |-> val]

\* No invocation running.  prev names the principal whose grant the
\* invocation that ran just before revoked without error ("" when it did not).
Idle == [kind |-> "none", op |-> "none", pc |-> "idle", id |-> "", id0 |-> "",
         d |-> <<>>, d0 |-> <<>>, calls |-> <<>>, err |-> Nil, tmp |-> <<>>, prev |-> ""]

Free(p) == inv[p].pc = "idle"

\* A new invocation: the schema layer hands the handler the stored Identifier and the declared fields.
Begin(kind, op, pc, id, d, prev) ==
    [kind |-> kind, op |-> op, pc |-> pc, id |-> id, id0 |-> id,
     d |-> d, d0 |-> d, calls |-> <<>>, err |-> Nil, tmp |-> <<>>, prev |-> prev]

Log(p, c) == Append(inv[p].calls, c)

At(p, kind, pc) == inv[p].kind = kind /\ inv[p].pc = pc

Set(p, r) == inv' = [inv EXCEPT ![p] = r]

\* The handler returns e (nil or an error).
Return(i, e) == [i EXCEPT !.pc = "done", !.err = e]

CountCalls(p, verb) == Cardinality({k \in 1..Len(inv[p].calls) : inv[p].calls[k].verb = verb})

\* ------------------------------------------------------------------- feed

FeedIds == {"feed-" \o ToString(n) : n \in 1..MaxIds}

ChangeTypes == {"delete", "addOrUpdate"}

StartFeed(p) ==
    /\ \A q \in Procs : Free(q)
    /\ \E op \in Ops, pd \in BOOLEAN, id \in FeedIds \cup {""} :
        /\ op = "Create" => id = ""
        /\ Set(p, Begin("feed", op,
                        CASE op = "Create" -> "queryChange"
                          [] op = "Read"   -> "get"
                          [] op = "Update" -> "update"
                          [] op = "Delete" -> "delete",
                        id,
                        [name |-> "feedA", permanent_delete |-> pd, restored |-> "unset"],
                        ""))
    /\ UNCHANGED <<grants, noneRemoves, rt>>

\* Faulty variant: any change record makes the feed restorable
isFeedRestorable_AnyRecord(out, changeType) == out = "ok"

\* isFeedRestorable: err == nil && changeType == delete.  Any failure of the
\* query, NotFound or not, answers "not restorable".
isFeedRestorable(out, changeType) == out = "ok" /\ changeType = "delete"

FeedQueryChange(p) ==
    /\ At(p, "feed", "queryChange")
    /\ \E out \in Outs, ct \in ChangeTypes :
        /\ out # "ok" => ct = "delete"
        /\ LET val == IF out = "ok" THEN ct ELSE "" IN
           Set(p, [inv[p] EXCEPT !.calls = Log(p, Call("queryChange", out, val)),
                                 !.pc = IF isFeedRestorable(out, ct) THEN "restore" ELSE "create"])
    /\ UNCHANGED <<grants, noneRemoves, rt>>

\* Faulty variant: the flag is never raised
RestoredAfter_AlwaysFalse(verb) == "false"

\* d.Set("restored", true) in restoreFeed, d.Set("restored", false) in createFeed.
RestoredAfter(verb) == IF verb = "restore" THEN "true" ELSE "false"

\* Faulty variant: a failed restore falls back to creating the feed
RestoreFailed_FallsBack(i, out) == [i EXCEPT !.pc = "create"]

\* resourceFeedCreate: restoreFeed's error is wrapped and returned.
RestoreFailed(i, out) == Return(i, Errorf("restoring feed", GwErr("restore", out)))

FeedRestore(p) ==
    /\ At(p, "feed", "restore")
    /\ \E out \in Outs :
        LET i == [inv[p] EXCEPT !.calls = Log(p, Call("restore", out, ""))] IN
        IF out # "ok"
        THEN Set(p, RestoreFailed(i, out))
        ELSE Set(p, [i EXCEPT !.d.restored = RestoredAfter("restore"), !.pc = "get"])
    /\ UNCHANGED <<grants, noneRemoves, rt>>

FeedCreateCall(p) ==
    /\ At(p, "feed", "create")
    /\ \E out \in Outs :
        LET i == [inv[p] EXCEPT !.calls = Log(p, Call("create", out, ""))] IN
        IF out # "ok"
        THEN Set(p, Return(i, Errorf("creating new feed", GwErr("create", out))))
        ELSE Set(p, [i EXCEPT !.d.restored = RestoredAfter("create"), !.pc = "get"])
    /\ UNCHANGED <<grants, noneRemoves, rt>>

\* Faulty variant: NotFound is answered with success but the Identifier is kept
FeedGetResult_KeepsId(i, out, fid) ==
    IF out = "ok" THEN Return([i EXCEPT !.id = fid], Nil)
    ELSE IF ResponseWasNotFound(GwErr("get", out)) THEN Return(i, Nil)
    ELSE Return(i, Errorf("error reading feed during read", GwErr("get", out)))

\* resourceFeedRead, also the tail of Create and Update.
FeedGetResult(i, out, fid) ==
    IF out = "ok" THEN Return([i EXCEPT !.id = fid], Nil)
    ELSE IF ResponseWasNotFound(GwErr("get", out)) THEN Return([i EXCEPT !.id = ""], Nil)
    ELSE Return(i, Errorf("error reading feed during read", GwErr("get", out)))

FeedGet(p) ==
    /\ At(p, "feed", "get")
    /\ \E out \in Outs, fid \in FeedIds :
        /\ out # "ok" => fid = "feed-1"
        /\ Set(p, FeedGetResult([inv[p] EXCEPT !.calls = Log(p, Call("get", out, IF out = "ok" THEN fid ELSE ""))],
                                out, fid))
    /\ UNCHANGED <<grants, noneRemoves, rt>>

FeedUpdateCall(p) ==
    /\ At(p, "feed", "update")
    /\ \E out \in Outs :
        LET i == [inv[p] EXCEPT !.calls = Log(p, Call("update", out, ""))] IN
        IF out # "ok"
        THEN Set(p, Return(i, GwErr("update", out)))
        ELSE Set(p, [i EXCEPT !.pc = "get"])
    /\ UNCHANGED <<grants, noneRemoves, rt>>

\* Faulty variant: a feed that is already gone counts as deleted
FeedDeleteCall_NotFoundIsSuccess(p) ==
    /\ At(p, "feed", "delete")
    /\ \E out \in Outs :
        LET i == [inv[p] EXCEPT !.calls = Log(p, Call("delete", out, ""))] IN
        IF out = "Other"
        THEN Set(p, Return(i, GwErr("delete", out)))
        ELSE IF i.d.permanent_delete /\ out = "ok"
             THEN Set(p, [i EXCEPT !.pc = "purge"])
             ELSE Set(p, Return([i EXCEPT !.id = ""], Nil))
    /\ UNCHANGED <<grants, noneRemoves, rt>>

\* Faulty variant: every deleted feed is purged
permanentDelete_Always(d) == TRUE

\* permanentDelete := d.Get("permanent_delete").(bool)
permanentDelete(d) == d.permanent_delete

\* resourceFeedDelete up to the purge.
FeedDeleteCall(p) ==
    /\ At(p, "feed", "delete")
    /\ \E out \in Outs :
        LET i == [inv[p] EXCEPT !.calls = Log(p, Call("delete", out, ""))] IN
        IF out # "ok"
        THEN Set(p, Return(i, GwErr("delete", out)))
        ELSE IF permanentDelete(i.d)
             THEN Set(p, [i EXCEPT !.pc = "purge"])
             ELSE Set(p, Return([i EXCEPT !.id = ""], Nil))
    /\ UNCHANGED <<grants, noneRemoves, rt>>

\* Faulty variant: the soft-delete has succeeded, so the purge's failure is dropped
FeedPurgeResult_Masked(i, out) == Return([i EXCEPT !.id = ""], Nil)

\* resourceFeedDelete after PermanentDeleteFeed: its error is returned as it
\* is, else the Identifier is cleared.
FeedPurgeResult(i, out) ==
    IF out # "ok" THEN Return(i, GwErr("purge", out))
    ELSE Return([i EXCEPT !.id = ""], Nil)

FeedPurge(p) ==
    /\ At(p, "feed", "purge")
    /\ \E out \in Outs :
        Set(p, FeedPurgeResult([inv[p] EXCEPT !.calls = Log(p, Call("purge", out, ""))], out))
    /\ UNCHANGED <<grants, noneRemoves, rt>>

FeedStep(p) ==
    \/ FeedQueryChange(p)
    \/ FeedRestore(p)
    \/ FeedCreateCall(p)
    \/ FeedGet(p)
    \/ FeedUpdateCall(p)
    \/ FeedDeleteCall(p)
    \/ FeedPurge(p)

\* ----------------------------------------------------------- audit stream

\* Time is counted in units of 100 ms.
\* Delay: 5 * time.Second
Delay == 50
\* MinTimeout: 10 * time.Second
MinTimeout == 100
\* Timeouts.Create: schema.DefaultTimeout(10 * time.Minute)
CreateTimeout == 6000

\* Faulty variant: a status of no known kind keeps the poll waiting
Pending_WithUnknown == {"backfilling", "unknown"}
Pending == {"backfilling"}
\* Faulty variant: only Enabled ends the poll
Target_EnabledOnly == {"enabled"}
Target == {"enabled", "disabledByUser", "disabledBySystem"}
\* audit.AuditStreamStatusValues
Statuses == {"backfilling", "enabled", "disabledByUser", "disabledBySystem", "unknown"}

AuditNums == 1..MaxIds

\* strconv.Itoa / strconv.Atoi on the Identifier string.
Itoa(n) == ToString(n)
Atoi(s) ==
    IF \E n \in AuditNums : ToString(n) = s
    THEN [ok |-> TRUE, n |-> CHOOSE n \in AuditNums : ToString(n) = s]
    ELSE [ok |-> FALSE, n |-> 0]

StartAudit(p) ==
    /\ \A q \in Procs : Free(q)
    /\ \E op \in Ops, en \in BOOLEAN, id \in {Itoa(n) : n \in AuditNums} \cup {""} :
        /\ op = "Create" => id = ""
        /\ Set(p, Begin("audit", op,
                        CASE op = "Create" -> "create"
                          [] op = "Read"   -> "read"
                          [] op = "Update" -> "update"
                          [] op = "Delete" -> "delete",
                        id,
                        [enabled |-> en, name |-> ""],
                        ""))
    /\ UNCHANGED <<grants, noneRemoves, rt>>

\* createAuditStream up to the start of WaitForState: the refresh loop first
\* sleeps Delay, and its first refresh follows with no further wait.
AuditCreateCall(p) ==
    /\ At(p, "audit", "create")
    /\ \E out \in Outs, sid \in AuditNums, st \in Statuses :
        /\ out # "ok" => (sid = 1 /\ st = "unknown")
        /\ LET i == [inv[p] EXCEPT !.calls = Log(p, Call("create", out, IF out = "ok" THEN Itoa(sid) ELSE ""))] IN
           IF out # "ok"
           THEN Set(p, Return(i, Errorf("Error creating audit stream in Azure DevOps", GwErr("create", out))))
           ELSE Set(p, [i EXCEPT !.pc = "poll", !.tmp = [sid |-> sid, status |-> st, now |-> Delay, wait |-> 0]])
    /\ UNCHANGED <<grants, noneRemoves, rt>>

\* Faulty variant: the sleep is not raised to MinTimeout
NextWait_NoFloor(w) ==
    LET w1 == IF w = 0 THEN 1 ELSE w
        w2 == 2 * w1
    IN IF w2 > 100 THEN 100 ELSE w2

\* StateChangeConf.WaitForState, the sleep before the next refresh: doubled
\* while no target was seen, raised to MinTimeout, capped at 10 s.
NextWait(w) ==
    LET w1 == IF w = 0 THEN 1 ELSE w
        w2 == 2 * w1
    IN IF w2 < MinTimeout THEN MinTimeout ELSE IF w2 > 100 THEN 100 ELSE w2

\* The failure of createAuditStream as genAuditStreamCreateFunc returns it.
WaitFailed(e) ==
    Errorf("Error creating audit stream in Azure DevOps", Errorf("waiting for auditstream ready", e))

\* Faulty variant: the stream just created is deleted when the wait fails
PollFailed_Undoes(i, e) ==
    Return([i EXCEPT !.calls = Append(@, Call("delete", "ok", ""))], WaitFailed(e))

\* WaitForState returned the error e: createAuditStream returns it wrapped
\* and the handler returns; the delete of the stream is commented out.
PollFailed(i, e) == Return(i, WaitFailed(e))

\* Faulty variant: a pending status sends the handler back to the create call
AfterPending_CreatesAgain(i) == [i EXCEPT !.pc = "create"]

\* WaitForState on a pending status: sleep, then refresh again.
AfterPending(i) == [i EXCEPT !.tmp.wait = NextWait(@)]

\* One refresh of the poll (readStreamStatus) and WaitForState's verdict on it.
AuditPollRead(p) ==
    /\ At(p, "audit", "poll")
    /\ inv[p].tmp.now + inv[p].tmp.wait <= CreateTimeout
    /\ \E out \in Outs, st \in Statuses :
        /\ out # "ok" => st = "unknown"
        /\ LET i == [inv[p] EXCEPT !.calls = Log(p, Call("get", out, IF out = "ok" THEN st ELSE "")),
                                   !.tmp.now = @ + inv[p].tmp.wait]
           IN
           IF out # "ok" THEN Set(p, PollFailed(i, GwErr("get", out)))
           ELSE IF st \in Target THEN Set(p, [i EXCEPT !.pc = "setStatus"])
           ELSE IF st \in Pending THEN Set(p, AfterPending(i))
           ELSE Set(p, PollFailed(i, ErrNew("unexpected state")))
    /\ UNCHANGED <<grants, noneRemoves, rt>>

\* The Timeout timer of WaitForState fires before the next refresh is due:
\* the refresh loop is cancelled and the TimeoutError comes back.
AuditPollTimeout(p) ==
    /\ At(p, "audit", "poll")
    /\ inv[p].tmp.now + inv[p].tmp.wait >= CreateTimeout
    /\ Set(p, PollFailed(inv[p], ErrNew("timeout while waiting for state")))
    /\ UNCHANGED <<grants, noneRemoves, rt>>

\* setStreamStatusState compares two pointers (the Status field of the stream
\* CreateStream or UpdateStream returned and the address of the package's
\* status value), which never are the same address: UpdateStatus is called
\* whatever the status.
StatusDiffers(streamStatus, wanted) == TRUE

WantedStatus(enabled) == IF enabled THEN "enabled" ELSE "disabledByUser"

\* setStreamStatusState and what follows it in Create (d.SetId) and in Update (flatFunc).
AuditSetStatus(p) ==
    /\ At(p, "audit", "setStatus")
    /\ LET cur == inv[p].tmp.status IN
       IF StatusDiffers(cur, WantedStatus(inv[p].d.enabled))
       THEN \E out \in Outs :
            LET i == [inv[p] EXCEPT !.calls = Log(p, Call("setStatus", out, IF out = "ok" THEN WantedStatus(inv[p].d.enabled) ELSE ""))] IN
            IF out # "ok"
            THEN Set(p, Return(i, Errorf("Error updating audit stream in Azure DevOps", GwErr("setStatus", out))))
            ELSE Set(p, [i EXCEPT !.id = Itoa(i.tmp.sid), !.pc = "read"])
       ELSE Set(p, [inv[p] EXCEPT !.id = Itoa(inv[p].tmp.sid), !.pc = "read"])
    /\ UNCHANGED <<grants, noneRemoves, rt>>

\* genAuditStreamReadFunc, also the tail of Create and Update.  hasId is
\* whether the stream the Gateway returns carries an Id.
AuditReadResult(i, out, hasId, sid) ==
    IF out = "ok"
    THEN IF hasId THEN Return([i EXCEPT !.id = Itoa(sid), !.d.name = "stream"], Nil)
         ELSE Return([i EXCEPT !.id = ""], Nil)
    ELSE IF ResponseWasNotFound(GwErr("get", out)) THEN Return([i EXCEPT !.id = ""], Nil)
    ELSE Return(i, Errorf("Error looking up audit stream", GwErr("get", out)))

AuditRead(p) ==
    /\ At(p, "audit", "read")
    /\ LET a == Atoi(inv[p].id) IN
       IF ~a.ok
       THEN Set(p, Return(inv[p], ErrNew("Error parsing the audit stream ID")))
       ELSE \E out \in Outs, hasId \in BOOLEAN :
            /\ out # "ok" => hasId
            /\ Set(p, AuditReadResult([inv[p] EXCEPT !.calls = Log(p, Call("get", out, ""))], out, hasId, a.n))
    /\ UNCHANGED <<grants, noneRemoves, rt>>

\* genAuditStreamUpdateFunc: doBaseExpansion leaves the stream's Id nil when
\* the Identifier does not parse, and UpdateStream is called all the same.
AuditUpdateCall(p) ==
    /\ At(p, "audit", "update")
    /\ \E out \in Outs, sid \in AuditNums, st \in Statuses :
        /\ Atoi(inv[p].id).ok => sid = Atoi(inv[p].id).n
        /\ out # "ok" => (st = "unknown" /\ (~Atoi(inv[p].id).ok => sid = 1))
        /\ LET i == [inv[p] EXCEPT !.calls = Log(p, Call("update", out, "")), !.tmp = [sid |-> sid, status |-> st]] IN
           IF out # "ok"
           THEN Set(p, Return(i, Errorf("Error updating audit stream in Azure DevOps", GwErr("update", out))))
           ELSE Set(p, [i EXCEPT !.pc = "setStatus"])
    /\ UNCHANGED <<grants, noneRemoves, rt>>

AuditDeleteCall(p) ==
    /\ At(p, "audit", "delete")
    /\ IF ~Atoi(inv[p].id).ok
       THEN Set(p, Return(inv[p], ErrNew("strconv.Atoi: invalid syntax")))
       ELSE \E out \in Outs :
            LET i == [inv[p] EXCEPT !.calls = Log(p, Call("delete", out, ""))] IN
            IF out # "ok"
            THEN Set(p, Return(i, Errorf("Error deleting audit stream in Azure DevOps", GwErr("delete", out))))
            ELSE Set(p, Return(i, Nil))
    /\ UNCHANGED <<grants, noneRemoves, rt>>

AuditStep(p) ==
    \/ AuditCreateCall(p)
    \/ AuditPollRead(p)
    \/ AuditPollTimeout(p)
    \/ AuditSetStatus(p)
    \/ AuditRead(p)
    \/ AuditUpdateCall(p)
    \/ AuditDeleteCall(p)

\* ------------------------------------------------------- group entitlement

\* A string that may hold backslashes is kept as its backslash-separated
\* segments, as strings.Split(s, "\\") returns them: "" is <<"">>, "a\b" is
\* <<"a", "b">>.
EmptyStr == <<"">>
Contains(segs) == Len(segs) >= 2

PrincipalNames == {EmptyStr, <<"grp">>, <<"[proj]", "grp">>, <<"[proj]", "grp", "x">>}
OriginIdValues == {"", "oid-1"}
Origins == {"", "aad"}
DisplayNames == {"", "grp", "other"}
LicenseTypes == {"express", "stakeholder"}
LicenseInputs == LicenseTypes \cup {"bogus"}
LicensingSources == {"account"}

GENums == 1..MaxIds
\* uuid.UUID.String / uuid.Parse on the Identifier string.
UuidString(n) == "uuid-" \o ToString(n)

\* Faulty variant: every string parses
UuidParse_Lenient(s) == [ok |-> TRUE, n |-> 1]

UuidParse(s) ==
    IF \E n \in GENums : UuidString(n) = s
    THEN [ok |-> TRUE, n |-> CHOOSE n \in GENums : UuidString(n) = s]
    ELSE [ok |-> FALSE, n |-> 0]

\* converter.AccountLicenseType at its call sites: one of the license types, or an error.
AccountLicenseType(s) ==
    IF s \in LicenseTypes THEN [err |-> Nil, v |-> s]
    ELSE [err |-> ErrNew("unable to match given AccountLicenseType"), v |-> ""]

\* The declared fields of a group entitlement before anything is set.
GEData == [origin |-> "", origin_id |-> "", principal_name |-> EmptyStr, display_name |-> "",
           account_license_type |-> "express", licensing_source |-> "account", descriptor |-> ""]

\* Remote group entitlements: OriginId is a pointer, "nil" when absent.
GEEntity(n, origin, oid, dn, pn, lic) ==
    [Id |-> n, Descriptor |-> "aadgp.x", Origin |-> origin, OriginId |-> oid, DisplayName |-> dn,
     PrincipalName |-> pn, AccountLicenseType |-> lic, LicensingSource |-> "account"]

\* flattenGroupEntitlement: the fields it sets; the Identifier is returned beside them.
flattenGroupEntitlement(d, r) ==
    [d EXCEPT !.descriptor = r.Descriptor,
              !.origin = r.Origin,
              !.origin_id = IF r.OriginId # "nil" THEN r.OriginId ELSE @,
              !.display_name = r.DisplayName,
              !.principal_name = r.PrincipalName,
              !.account_license_type = r.AccountLicenseType,
              !.licensing_source = r.LicensingSource]

\* Faulty variant: the text after the last backslash
SecondSegment_Last(principalName) == principalName[Len(principalName)]

\* strings.Split(principalName, "\\")[1]
SecondSegment(principalName) == principalName[2]

\* Faulty variant: the declared display name is always kept
DisplayNameFor_Declared(principalName, displayName) == displayName

\* The display name expandGroupEntitlement sends: the second backslash
\* segment of a principal name that holds a backslash, else the declared one.
DisplayNameFor(principalName, displayName) ==
    IF principalName # EmptyStr /\ Contains(principalName) THEN SecondSegment(principalName) ELSE displayName

\* Faulty variant: origin_id and principal_name may be given together
BothGiven_Allowed(originID, principalName) == FALSE

\* len(originID) > 0 && len(principalName) > 0
BothGiven(originID, principalName) == originID # "" /\ principalName # EmptyStr

expandGroupEntitlement(d) ==
    LET origin == d.origin
        originID == d.origin_id
        principalName == d.principal_name
        displayName == DisplayNameFor(principalName, d.display_name)
        lic == AccountLicenseType(d.account_license_type)
        none == [Origin |-> "", OriginId |-> "", DisplayName |-> "", PrincipalName |-> EmptyStr,
                 AccountLicenseType |-> "", LicensingSource |-> "", SubjectKind |-> ""]
    IN
    IF BothGiven(originID, principalName)
    THEN [err |-> ErrNew("Both origin_id and principal_name set"), v |-> none]
    ELSE IF originID = "" /\ principalName = EmptyStr /\ displayName = ""
    THEN [err |-> ErrNew("Neither origin_id and principal_name set"), v |-> none]
    ELSE IF originID # "" /\ origin = ""
    THEN [err |-> ErrNew("Origin_id requires an origin to be set"), v |-> none]
    ELSE IF IsErr(lic.err)
    THEN [err |-> lic.err, v |-> none]
    ELSE [err |-> Nil,
          v |-> [Origin |-> origin, OriginId |-> originID, DisplayName |-> displayName,
                 PrincipalName |-> principalName, AccountLicenseType |-> lic.v,
                 LicensingSource |-> d.licensing_source, SubjectKind |-> "group"]]

\* The entitlements the Gateway answers with.
GEAnswers == {GEEntity(n, "aad", "oid-1", "grp", <<"[proj]", "grp">>, "express") : n \in GENums}

StartGE(p) ==
    /\ \A q \in Procs : Free(q)
    /\ \E op \in Ops, id \in {UuidString(n) : n \in GENums} \cup {"", "junk"},
          pn \in PrincipalNames, oid \in OriginIdValues, origin \in Origins,
          dn \in DisplayNames, lic \in LicenseInputs :
        /\ op = "Create" => id = ""
        /\ op \notin {"Create", "Update"} => lic = "express"
        /\ op # "Create" => (pn = <<"[proj]", "grp">> /\ oid = "oid-1" /\ origin = "aad" /\ dn = "grp")
        /\ Set(p, Begin("ge", op,
                        CASE op = "Create" -> "create"
                          [] op = "Read"   -> "read"
                          [] op = "Update" -> "update"
                          [] op = "Delete" -> "delete",
                        id,
                        [GEData EXCEPT !.origin = origin, !.origin_id = oid, !.principal_name = pn,
                                       !.display_name = dn, !.account_license_type = lic],
                        ""))
    /\ UNCHANGED <<grants, noneRemoves, rt>>

\* Faulty variant: only the call's own error counts
OperationFailed_Ignored(isSuccess) == FALSE

\* !*result[0].IsSuccess
OperationFailed(isSuccess) == ~isSuccess

\* What the log keeps of an answered add or update: the IsSuccess flag of the
\* first operation result.
ResultFlag(out, isSuccess) == IF out # "ok" THEN "" ELSE IF isSuccess THEN "success" ELSE "failed"

\* resourceGroupEntitlementCreate with addGroupEntitlement: isSuccess is the
\* flag of the first operation result of the response.
GECreate(p) ==
    /\ At(p, "ge", "create")
    /\ LET x == expandGroupEntitlement(inv[p].d) IN
       IF IsErr(x.err)
       THEN Set(p, Return(inv[p], Errorf("Creating group entitlement", x.err)))
       ELSE \E out \in Outs, isSuccess \in BOOLEAN, r \in GEAnswers :
            /\ (out # "ok" \/ ~isSuccess) => r.Id = 1
            /\ out # "ok" => isSuccess
            /\ LET i == [inv[p] EXCEPT !.calls = Log(p, Call("create", out, ResultFlag(out, isSuccess)))] IN
               IF out # "ok"
               THEN Set(p, Return(i, Errorf("Creating group entitlement", GwErr("create", out))))
               ELSE IF OperationFailed(isSuccess)
               THEN Set(p, Return(i, Errorf("Creating group entitlement", ErrNew("Adding group entitlement: API error"))))
               ELSE Set(p, [i EXCEPT !.id = UuidString(r.Id), !.d = flattenGroupEntitlement(@, r), !.pc = "read"])
    /\ UNCHANGED <<grants, noneRemoves, rt>>

\* resourceGroupEntitlementRead, also the tail of Create and Update.
GEReadResult(i, out, r) ==
    IF out = "ok"
    THEN Return([i EXCEPT !.id = UuidString(r.Id), !.d = flattenGroupEntitlement(@, r)], Nil)
    ELSE IF ResponseWasNotFound(GwErr("get", out)) THEN Return([i EXCEPT !.id = ""], Nil)
    ELSE Return(i, Errorf("Error reading group entitlement", GwErr("get", out)))

GERead(p) ==
    /\ At(p, "ge", "read")
    /\ LET u == UuidParse(inv[p].id) IN
       IF ~u.ok
       THEN Set(p, Return(inv[p], ErrNew("Error parsing GroupEntitlementID")))
       ELSE \E out \in Outs :
            LET r == CHOOSE a \in GEAnswers : a.Id = u.n IN
            Set(p, GEReadResult([inv[p] EXCEPT !.calls = Log(p, Call("get", out, ""))], out, r))
    /\ UNCHANGED <<grants, noneRemoves, rt>>

GEUpdate(p) ==
    /\ At(p, "ge", "update")
    /\ LET u == UuidParse(inv[p].id)
           lic == AccountLicenseType(inv[p].d.account_license_type)
       IN
       IF ~u.ok
       THEN Set(p, Return(inv[p], ErrNew("Parsing GroupEntitlement ID")))
       ELSE IF IsErr(lic.err)
       THEN Set(p, Return(inv[p], lic.err))
       ELSE \E out \in Outs, isSuccess \in BOOLEAN :
            /\ out # "ok" => isSuccess
            /\ LET i == [inv[p] EXCEPT !.calls = Log(p, Call("update", out, ResultFlag(out, isSuccess)))] IN
               IF out # "ok"
               THEN Set(p, Return(i, Errorf("Updating group entitlement", GwErr("update", out))))
               ELSE IF OperationFailed(isSuccess)
               THEN Set(p, Return(i, ErrNew("Updating group entitlement: API error")))
               ELSE Set(p, [i EXCEPT !.pc = "read"])
    /\ UNCHANGED <<grants, noneRemoves, rt>>

GEDelete(p) ==
    /\ At(p, "ge", "delete")
    /\ IF inv[p].id = ""
       THEN Set(p, Return(inv[p], Nil))
       ELSE IF ~UuidParse(inv[p].id).ok
       THEN Set(p, Return(inv[p], ErrNew("Error parsing GroupEntitlement ID")))
       ELSE \E out \in Outs :
            LET i == [inv[p] EXCEPT !.calls = Log(p, Call("delete", out, ""))] IN
            IF out # "ok"
            THEN Set(p, Return(i, Errorf("Deleting group entitlement", GwErr("delete", out))))
            ELSE Set(p, Return(i, Nil))
    /\ UNCHANGED <<grants, noneRemoves, rt>>

GEStep(p) ==
    \/ GECreate(p)
    \/ GERead(p)
    \/ GEUpdate(p)
    \/ GEDelete(p)

\* --------------------------------------------------------- feed permission

Principals == {"u1", "u2"}
Roles == {"reader", "administrator"}

\* What the identity service answers for a subject descriptor.
StorageKeyOf(desc) == "key:" \o desc
IdentityOf(key) == [Id |-> key, Descriptor |-> "ident:" \o key]
\* A nil *identity.Identity.
NilIdentity == [Id |-> "", Descriptor |-> ""]

Grant(desc, role) == [desc |-> desc, role |-> role]

\* Faulty variant: the remote adds an entry for every grant it is sent
Upsert_Appends(g, desc, role) == Append(g, Grant(desc, role))

\* The remote's SetFeedPermissions: one entry per identity, replaced in
\* place or appended; role None drops the entry when the remote's policy says so.
RECURSIVE Upsert(_, _, _)
Upsert(g, desc, role) ==
    IF g = <<>> THEN <<Grant(desc, role)>>
    ELSE IF Head(g).desc = desc THEN <<Grant(desc, role)>> \o Tail(g)
    ELSE <<Head(g)>> \o Upsert(Tail(g), desc, role)

RECURSIVE Without(_, _)
Without(g, desc) ==
    IF g = <<>> THEN <<>>
    ELSE IF Head(g).desc = desc THEN Without(Tail(g), desc)
    ELSE <<Head(g)>> \o Without(Tail(g), desc)

SetFeedPermissions(g, desc, role) ==
    IF role = "none" /\ noneRemoves THEN Without(g, desc) ELSE Upsert(g, desc, role)

\* Faulty variant: the scan keeps the last entry that matches
FirstMatch_Last(g, desc, k) ==
    LET hits == {j \in k..Len(g) : g[j].desc = desc} IN
    IF hits = {} THEN 0 ELSE CHOOSE j \in hits : \A h \in hits : h <= j

\* Faulty variant: an entry whose role is None does not count
IsEntryOf_Granted(entry, desc) == entry.desc = desc /\ entry.role # "none"

\* *permission.IdentityDescriptor == *identityResponse.Descriptor
IsEntryOf(entry, desc) == entry.desc = desc

\* The scan of getFeedPermission: the first entry, in collection order, whose
\* descriptor is the resolved identity's; 0 when there is none.
RECURSIVE FirstMatch(_, _, _)
FirstMatch(g, desc, k) ==
    IF k > Len(g) THEN 0
    ELSE IF IsEntryOf(g[k], desc) THEN k
    ELSE FirstMatch(g, desc, k + 1)

\* azuredevops.WrappedError{StatusCode: 404} built by getFeedPermission itself.
PermissionNotFound == [nf |-> TRUE, chain |-> <<<<"new", "error reading permission for Feed and Identity">>>>]

\* getFeedPermission once the grant collection g is read: the entry found
\* (its place in g) and no error, or nil (0) and the NotFound error.
SelectPermission(g, desc) ==
    LET k == FirstMatch(g, desc, 1) IN
    IF k # 0 THEN [permission |-> k, err |-> Nil]
    ELSE [permission |-> 0, err |-> PermissionNotFound]

\* The runtime invokes on p one of the handlers ops of the feed permission
\* resource, for one of the principals us.
PermBeginWith(p, ops, us) ==
    /\ \E op \in ops, u \in us, role \in Roles :
        /\ op \in {"Read", "Delete"} => role = "reader"
        /\ Set(p, [Begin("perm", op, "resolveKey",
                         IF op = "Create" THEN "" ELSE "fp-1",
                         [identity_descriptor |-> u, role |-> role, identity_id |-> ""],
                         inv[p].prev)
                   EXCEPT !.tmp = [phase |-> "main", ident |-> NilIdentity, rerr |-> Nil, grants0 |-> grants]])
    /\ UNCHANGED <<grants, noneRemoves, rt>>

PermBegin(p) == PermBeginWith(p, Ops, Principals)

\* One invocation at a time.
StartPerm(p) ==
    /\ \A q \in Procs : Free(q)
    /\ PermBegin(p)

\* The handlers that write the grant collection.
MutatingOps == {"Create", "Update", "Delete"}

\* Invocations of separate runs of the tool overlap: p starts while another
\* process is inside a handler.
StartPermConcurrent(p) ==
    /\ Free(p)
    /\ PermBeginWith(p, MutatingOps, Principals)

\* Faulty variant: an existing grant is no conflict
AlreadyExists_Never(permission) == FALSE

\* Create's check `permission != nil`.
AlreadyExists(permission) == permission # 0

\* Faulty variant: Update lets NotFound pass, as Create does
UpdateLookupFailed_NotFoundPasses(err) == IsErr(err) /\ ~ResponseWasNotFound(err)

\* Update's check `err != nil` on what getFeedPermission returned.
UpdateLookupFailed(err) == IsErr(err)

\* What each handler does with getFeedPermission's (permission, identity, err);
\* permission is 0 for nil, else the entry's place in the collection g.
PermAfterGet(i, g, permission, err) ==
    IF i.op = "Read" \/ i.tmp.phase = "read"
    THEN IF IsErr(err)
         THEN IF ResponseWasNotFound(err) THEN Return([i EXCEPT !.id = ""], Nil)
              ELSE Return(i, Errorf("error reading feed permission during read", err))
         ELSE Return([i EXCEPT !.d.role = g[permission].role, !.d.identity_id = i.tmp.ident.Id], Nil)
    ELSE IF i.op = "Create"
    THEN IF IsErr(err) /\ ~ResponseWasNotFound(err)
         THEN Return(i, Errorf("creating feed Permission", err))
         ELSE IF AlreadyExists(permission)
         THEN Return(i, ErrNew("feed Permission already exists"))
         ELSE IF i.tmp.ident = NilIdentity
         THEN [i EXCEPT !.pc = "panic"]
         ELSE [i EXCEPT !.pc = "setGrants"]
    ELSE IF UpdateLookupFailed(err)
    THEN Return(i, Errorf("error reading feed permission during update", err))
    ELSE [i EXCEPT !.pc = "setGrants"]

\* Faulty variant: Delete looks the grant up like the other handlers
NeedsGrantList_Always(i) == TRUE

\* Create, Read and Update resolve through getFeedPermission, which goes on
\* to read the grant collection; Delete calls getIdentity alone.
NeedsGrantList(i) == ~(i.op = "Delete" /\ i.tmp.phase = "main")

\* What a handler does when getIdentity failed with err.
PermResolveFailed(i, err) ==
    IF i.op = "Delete" /\ i.tmp.phase = "main"
    THEN Return(i, Errorf("deleting feed Permission", err))
    ELSE PermAfterGet(i, <<>>, 0, err)

\* Faulty variant: getIdentity wraps the failure in a message of its own
getIdentityFailure_Wrapped(verb, out) == Errorf("resolving identity", GwErr(verb, out))

\* getIdentity's `return nil, err`: the failed call's error as it came.
getIdentityFailure(verb, out) == GwErr(verb, out)

\* getIdentity, first call: GraphClient.GetStorageKey.  tmp.ident and
\* tmp.rerr are what getIdentity returns: (nil, nil) while it runs.
PermResolveKey(p) ==
    /\ At(p, "perm", "resolveKey")
    /\ \E out \in Outs :
        LET i == [inv[p] EXCEPT !.calls = Log(p, Call("resolveKey", out, "")),
                                !.tmp.ident = NilIdentity,
                                !.tmp.rerr = IF out # "ok" THEN getIdentityFailure("resolveKey", out) ELSE Nil]
        IN
        IF out # "ok"
        THEN Set(p, PermResolveFailed(i, i.tmp.rerr))
        ELSE Set(p, [i EXCEPT !.pc = "resolveIdentity"])
    /\ UNCHANGED <<grants, noneRemoves, rt>>

\* getIdentity, second call: IdentityClient.ReadIdentity.
PermResolveIdentity(p) ==
    /\ At(p, "perm", "resolveIdentity")
    /\ \E out \in Outs :
        LET i == [inv[p] EXCEPT !.calls = Log(p, Call("resolveIdentity", out, "")),
                                !.tmp.rerr = IF out # "ok" THEN getIdentityFailure("resolveIdentity", out) ELSE Nil]
        IN
        IF out # "ok"
        THEN Set(p, PermResolveFailed(i, i.tmp.rerr))
        ELSE Set(p, [i EXCEPT !.tmp.ident = IdentityOf(StorageKeyOf(i.d.identity_descriptor)),
                              !.pc = IF NeedsGrantList(i) THEN "listGrants" ELSE "setGrants"])
    /\ UNCHANGED <<grants, noneRemoves, rt>>

\* getFeedPermission from GetFeedPermissions on.
PermListGrants(p) ==
    /\ At(p, "perm", "listGrants")
    /\ \E out \in Outs :
        LET sel == SelectPermission(grants, inv[p].tmp.ident.Descriptor)
            i == [inv[p] EXCEPT !.calls = Log(p, Call("listGrants", out,
                                                     IF out # "ok" THEN "" ELSE IF sel.permission # 0 THEN "hit" ELSE "miss"))]
        IN
        IF out # "ok" THEN Set(p, PermAfterGet(i, grants, 0, GwErr("listGrants", out)))
        ELSE Set(p, PermAfterGet(i, grants, sel.permission, sel.err))
    /\ UNCHANGED <<noneRemoves, rt, grants>>

\* Faulty variant: Delete sends the declared role
SentRole_Declared(i) == i.d.role

\* The role each handler sends: the declared one, or None to revoke.
SentRole(i) == IF i.op = "Delete" THEN "none" ELSE i.d.role

\* The SetFeedPermissions call of Create, Update and Delete and what follows it.
PermSetGrants(p) ==
    /\ At(p, "perm", "setGrants")
    /\ \E out \in Outs :
        LET i == [inv[p] EXCEPT !.calls = Log(p, Call("setGrants", out, SentRole(inv[p])))] IN
        IF out # "ok"
        THEN /\ Set(p, Return(i, Errorf(CASE i.op = "Create" -> "creating feed Permission"
                                          [] i.op = "Update" -> "updating feed Permission"
                                          [] OTHER -> "deleting feed Permission",
                                        GwErr("setGrants", out))))
             /\ UNCHANGED grants
        ELSE /\ grants' = SetFeedPermissions(grants, i.tmp.ident.Descriptor, SentRole(i))
             /\ IF i.op = "Delete"
                THEN Set(p, Return([i EXCEPT !.id = ""], Nil))
                ELSE Set(p, [i EXCEPT !.id = IF i.op = "Create" THEN "fp-1" ELSE @,
                                      !.tmp.phase = "read", !.pc = "resolveKey"])
    /\ UNCHANGED <<noneRemoves, rt>>

PermStep(p) ==
    \/ PermResolveKey(p)
    \/ PermResolveIdentity(p)
    \/ PermListGrants(p)
    \/ PermSetGrants(p)

\* --------------------------------------------------- adapters, round trip

SplunkUrls == {"https://a:8088", "https://b:8088"}
SplunkTokens == {"t1", "t2"}
StreamNames == {"", "stream"}

SplunkEntity(n, name, url, token, days) ==
    [Id |-> n, DisplayName |-> name, ConsumerType |-> "Splunk",
     SplunkUrl |-> url, SplunkEventCollectorToken |-> token, days |-> days]

\* flattenAuditStreamSplunk with doBaseFlattening
flattenAuditStreamSplunk(r) ==
    [id |-> Itoa(r.Id), days_to_backfill |-> r.days, name |-> r.DisplayName,
     url |-> r.SplunkUrl, collector_token |-> r.SplunkEventCollectorToken]

\* expandAuditStreamSplunk with doBaseExpansion: the Id is 0 for nil when the
\* Identifier does not parse.
expandAuditStreamSplunk(d) ==
    [err |-> Nil,
     v |-> [Id |-> Atoi(d.id).n, ConsumerType |-> "Splunk",
            SplunkUrl |-> d.url, SplunkEventCollectorToken |-> d.collector_token,
            days |-> d.days_to_backfill]]

GEInputs ==
    {GEEntity(n, origin, oid, dn, pn, lic) :
        n \in GENums, origin \in Origins, oid \in OriginIdValues \cup {"nil"},
        dn \in DisplayNames, pn \in PrincipalNames, lic \in LicenseTypes}

SplunkInputs ==
    {SplunkEntity(n, name, url, token, days) :
        n \in AuditNums, name \in StreamNames, url \in SplunkUrls, token \in SplunkTokens, days \in {0, 1}}

NoExpansion == [err |-> Nil, v |-> <<>>]

InitRT ==
    /\ inv = [p \in Procs |-> Idle]
    /\ grants = <<>>
    /\ noneRemoves = TRUE
    /\ \E r \in GEInputs \cup SplunkInputs :
        rt = [kind |-> IF r \in GEInputs THEN "ge" ELSE "splunk", phase |-> "in", r |-> r,
              d |-> <<>>, x |-> NoExpansion]

\* decode: the remote entity is flattened into fresh ResourceData.
RTFlatten ==
    /\ rt.phase = "in"
    /\ rt' = [rt EXCEPT !.phase = "flat",
                        !.d = IF rt.kind = "ge" THEN flattenGroupEntitlement(GEData, rt.r)
                              ELSE flattenAuditStreamSplunk(rt.r)]
    /\ UNCHANGED <<inv, grants, noneRemoves>>

\* encode: the flattened data is expanded again.
RTExpand ==
    /\ rt.phase = "flat"
    /\ rt' = [rt EXCEPT !.phase = "out",
                        !.x = IF rt.kind = "ge" THEN expandGroupEntitlement(rt.d)
                              ELSE expandAuditStreamSplunk(rt.d)]
    /\ UNCHANGED <<inv, grants, noneRemoves>>

NextRT == RTFlatten \/ RTExpand

SpecRT == InitRT /\ [][NextRT]_vars

\* --------------------------------------------------------- lookups by name

\* Identifiers handed to the importer that uuid.Parse rejects.  uuidRegexp is
\* compiled from an interpreted string literal, where \b is the backspace
\* character: it accepts the strings that have a backspace after each of the
\* first four groups of hex digits, and no plain name.
BackspacedIds == {"0a1b2c3d<BS>-0a1b<BS>-0a1b<BS>-0a1b<BS>-0a1b2c3d4e5f"}
PlainNames == {"[proj]\\grp"}

uuidRegexpMatch(s) == s \in BackspacedIds

StartImport(p) ==
    /\ \A q \in Procs : Free(q)
    /\ \E id \in {UuidString(n) : n \in GENums} \cup BackspacedIds \cup PlainNames :
        Set(p, Begin("import", "Import", "import", id, GEData, ""))
    /\ UNCHANGED <<grants, noneRemoves, rt>>

\* importGroupEntitlement after ReadIdentities answered with n identities
\* (the first of them has the first id).
ImportResult(i, out, n) ==
    IF out # "ok" THEN Return(i, GwErr("readIdentities", out))
    ELSE IF n <= 0 THEN Return(i, ErrNew("No entitlement found"))
    ELSE IF n > 1 THEN Return(i, ErrNew("More than one entitle found"))
    ELSE Return([i EXCEPT !.id = UuidString(1)], Nil)

\* importGroupEntitlement
ImportLookup(p) ==
    /\ At(p, "import", "import")
    /\ IF UuidParse(inv[p].id).ok
       THEN Set(p, Return(inv[p], Nil))
       ELSE IF ~uuidRegexpMatch(inv[p].id)
       THEN Set(p, Return(inv[p], ErrNew("Only UUID values can used for import")))
       ELSE \E out \in Outs, n \in 0..MaxIds :
            /\ out # "ok" => n = 0
            /\ Set(p, ImportResult([inv[p] EXCEPT !.calls = Log(p, Call("readIdentities", out,
                                                                        IF out = "ok" THEN ToString(n) ELSE ""))],
                                   out, n))
    /\ UNCHANGED <<grants, noneRemoves, rt>>

\* Provider display names of the groups of a project, and the name asked for.
ProviderDisplayNames == {"Readers", "READERS", "Other"}
GroupNames == {"readers"}

\* The values account_license_type admits, and the spellings of them that
\* its validation (StringInSlice, ignoring case) lets through.
AllowedLicenseValues ==
    {"advanced", "earlyAdopter", "express", "basic", "none", "professional", "stakeholder"}

LicenseSpellings ==
    AllowedLicenseValues \cup {"Advanced", "EARLYADOPTER", "Express", "Basic", "NONE", "Professional", "Stakeholder"}

\* The lower-case form of a license spelling.
ToLower(s) ==
    CASE s \in {"advanced", "Advanced"} -> "advanced"
      [] s \in {"earlyAdopter", "EARLYADOPTER"} -> "earlyadopter"
      [] s \in {"express", "Express"} -> "express"
      [] s \in {"basic", "Basic"} -> "basic"
      [] s \in {"none", "NONE"} -> "none"
      [] s \in {"professional", "Professional"} -> "professional"
      [] s \in {"stakeholder", "Stakeholder"} -> "stakeholder"

\* strings.EqualFold on these names: equality under case folding.
Fold(s) ==
    IF s \in {"Readers", "READERS", "readers"} THEN "readers"
    ELSE IF s \in LicenseSpellings THEN ToLower(s)
    ELSE "other"
EqualFold(a, b) == Fold(a) = Fold(b)

Group(n, name) == [Id |-> n, ProviderDisplayName |-> name]

GroupLists ==
    UNION {[1..n -> {Group(k, name) : k \in 1..MaxIds, name \in ProviderDisplayNames}] : n \in 0..MaxGroups}

\* selectIdentityGroup: the place of the first group whose provider display
\* name equals the name under case folding; 0 for nil.
RECURSIVE selectIdentityGroup(_, _, _)
selectIdentityGroup(groups, groupName, k) ==
    IF k > Len(groups) THEN 0
    ELSE IF EqualFold(groups[k].ProviderDisplayName, groupName) THEN k
    ELSE selectIdentityGroup(groups, groupName, k + 1)

StartGroupRead(p) ==
    /\ \A q \in Procs : Free(q)
    /\ \E name \in GroupNames :
        Set(p, Begin("group", "Read", "listGroups", "", [name |-> name, descriptor |-> ""], ""))
    /\ UNCHANGED <<grants, noneRemoves, rt>>

\* dataSourceIdentityGroupRead
GroupList(p) ==
    /\ At(p, "group", "listGroups")
    /\ \E out \in Outs, groups \in GroupLists :
        /\ out # "ok" => groups = <<>>
        /\ LET i == [inv[p] EXCEPT !.calls = Log(p, Call("listGroups", out, groups))]
               k == selectIdentityGroup(groups, i.d.name, 1)
           IN
           IF out # "ok"
           THEN Set(p, Return(i, Errorf("failed to get groups for project", GwErr("listGroups", out))))
           ELSE IF k = 0
           THEN Set(p, Return(i, ErrNew("can not find group with name")))
           ELSE Set(p, Return([i EXCEPT !.id = UuidString(groups[k].Id),
                                        !.d.descriptor = UuidString(groups[k].Id)], Nil))
    /\ UNCHANGED <<grants, noneRemoves, rt>>

\* ------------------------------------------------------- back to the caller

\* The handler has returned (or panicked) and the process is free for the
\* next invocation.
RevokedBy(i) ==
    IF i.kind = "perm" /\ i.op = "Delete" /\ i.pc = "done" /\ ~IsErr(i.err)
    THEN i.d.identity_descriptor ELSE ""

Finish(p) ==
    /\ inv[p].pc \in {"done", "panic"}
    /\ Set(p, [Idle EXCEPT !.prev = RevokedBy(inv[p])])
    /\ UNCHANGED <<grants, noneRemoves, rt>>

\* ------------------------------------------------------------ specification

\* The handlers of the entities that carry an Identifier.
Init ==
    /\ inv = [p \in Procs |-> Idle]
    /\ grants = <<>>
    /\ noneRemoves = TRUE
    /\ rt = <<>>

Next ==
    \E p \in SeqProcs :
        \/ StartFeed(p)
        \/ FeedStep(p)
        \/ StartAudit(p)
        \/ AuditStep(p)
        \/ StartGE(p)
        \/ GEStep(p)
        \/ Finish(p)

Spec == Init /\ [][Next]_vars

\* The feed permission handlers against the feed's grant collection.
InitGrants == {<<>>, <<Grant("ident:key:other", "reader")>>}

InitPerm ==
    /\ inv = [p \in Procs |-> Idle]
    /\ grants \in InitGrants
    /\ noneRemoves \in BOOLEAN
    /\ rt = <<>>

NextPerm ==
    \E p \in SeqProcs :
        \/ StartPerm(p)
        \/ PermStep(p)
        \/ Finish(p)

SpecPerm == InitPerm /\ [][NextPerm]_vars

\* Two runs of the tool at once, one handler each, interleaved call by call.
\* They start from any collection that holds at most one grant per identity,
\* which covers what earlier invocations may have left.
Unique(g) == \A j, k \in 1..Len(g) : j # k => g[j].desc # g[k].desc

ConcurrentInitGrants ==
    {g \in UNION {[1..n -> {Grant(desc, "reader") :
                                desc \in {"ident:key:other"} \cup {IdentityOf(StorageKeyOf(u)).Descriptor : u \in Principals}}]
                    : n \in 0..2} : Unique(g)}

InitPermConcurrent ==
    /\ inv = [p \in Procs |-> Idle]
    /\ grants \in ConcurrentInitGrants
    /\ noneRemoves \in BOOLEAN
    /\ rt = <<>>

NextPermConcurrent ==
    \E p \in Procs :
        \/ StartPermConcurrent(p)
        \/ PermStep(p)

SpecPermConcurrent == InitPermConcurrent /\ [][NextPermConcurrent]_vars

\* The lookups by name: the group-entitlement importer and the identity
\* group data source.
NextLookup ==
    \E p \in SeqProcs :
        \/ StartImport(p)
        \/ ImportLookup(p)
        \/ StartGroupRead(p)
        \/ GroupList(p)
        \/ Finish(p)

SpecLookup == Init /\ [][NextLookup]_vars

\* The selection of getFeedPermission on its own, over the grant collections
\* up to MaxGrants entries (an identity may have several entries) and the
\* identities the resolution can return.
GrantValues == {Grant(IdentityOf(StorageKeyOf(u)).Descriptor, role) : u \in Principals, role \in Roles}

GrantCollections == UNION {[1..n -> GrantValues] : n \in 0..MaxGrants}

InitSel ==
    /\ inv = [p \in Procs |-> Idle]
    /\ grants = <<>>
    /\ noneRemoves = TRUE
    /\ \E g \in GrantCollections, u \in Principals :
        rt = [kind |-> "sel", phase |-> "in", g |-> g,
              desc |-> IdentityOf(StorageKeyOf(u)).Descriptor,
              res |-> [permission |-> 0, err |-> Nil]]

SelectStep ==
    /\ rt.phase = "in"
    /\ rt' = [rt EXCEPT !.phase = "out", !.res = SelectPermission(rt.g, rt.desc)]
    /\ UNCHANGED <<inv, grants, noneRemoves>>

NextSel == SelectStep

SpecSel == InitSel /\ [][NextSel]_vars

\* The diff suppression of account_license_type on its own: the schema layer
\* hands it the stored and the declared value.  Three values at a time, so
\* that every pairing of them is computed.

\* Faulty variant: basic stands alone
equalEntitlements_NoBasic == <<"earlyAdopter", "express">>

equalEntitlements == <<"earlyAdopter", "express", "basic">>

stringInSlice(v, valid) == \E k \in 1..Len(valid) : EqualFold(v, valid[k])

\* DiffSuppressFunc of account_license_type
DiffSuppress(old, new) ==
    EqualFold(old, new) \/ (stringInSlice(old, equalEntitlements) /\ stringInSlice(new, equalEntitlements))

InitDiff ==
    /\ inv = [p \in Procs |-> Idle]
    /\ grants = <<>>
    /\ noneRemoves = TRUE
    /\ \E a \in LicenseSpellings, b \in LicenseSpellings, c \in LicenseSpellings :
        rt = [kind |-> "diff", phase |-> "in", a |-> a, b |-> b, c |-> c, s |-> <<>>]

DiffStep ==
    /\ rt.phase = "in"
    /\ rt' = [rt EXCEPT !.phase = "out",
                        !.s = [aa |-> DiffSuppress(rt.a, rt.a),
                               ab |-> DiffSuppress(rt.a, rt.b),
                               ba |-> DiffSuppress(rt.b, rt.a),
                               bc |-> DiffSuppress(rt.b, rt.c),
                               ac |-> DiffSuppress(rt.a, rt.c)]]
    /\ UNCHANGED <<inv, grants, noneRemoves>>

NextDiff == DiffStep

SpecDiff == InitDiff /\ [][NextDiff]_vars

\* ----------------------------------------------------------------- claims

IsFeedCreate(p) == inv[p].kind = "feed" /\ inv[p].op = "Create"
IsAuditCreate(p) == inv[p].kind = "audit" /\ inv[p].op = "Create"
IsPerm(p, op) == inv[p].kind = "perm" /\ inv[p].op = op

\* C1: feed Create decides between restore and create from the change-record
\* query.  When the query answered with a soft-delete record the invocation
\* issues no create call and, once it has returned, exactly one restore call;
\* when the query found no soft-delete record (NotFound, or a record of
\* another change) it issues no restore call and exactly one create call.
C1_RestoreOrCreate ==
    \A p \in Procs :
        (IsFeedCreate(p) /\ Len(inv[p].calls) >= 1) =>
            LET q == inv[p].calls[1]
                softDeleted == q.out = "ok" /\ q.val = "delete"
                noRecord == q.out = "NotFound" \/ (q.out = "ok" /\ q.val # "delete")
            IN
            /\ q.verb = "queryChange"
            /\ softDeleted =>
                /\ CountCalls(p, "create") = 0
                /\ CountCalls(p, "restore") <= 1
                /\ inv[p].pc \in {"get", "done"} => CountCalls(p, "restore") = 1
            /\ noRecord =>
                /\ CountCalls(p, "restore") = 0
                /\ CountCalls(p, "create") <= 1
                /\ inv[p].pc \in {"get", "done"} => CountCalls(p, "create") = 1

C1_Witness ==
    \E p \in Procs :
        /\ IsFeedCreate(p) /\ inv[p].pc = "done" /\ ~IsErr(inv[p].err)
        /\ inv[p].calls[1].val = "delete"
        /\ CountCalls(p, "restore") = 1

\* The reads of the stabilization poll: the calls that follow the create call
\* up to the status update (or to the end of the log).
PollReads(i) ==
    LET stop == IF \E k \in 1..Len(i.calls) : i.calls[k].verb = "setStatus"
                THEN CHOOSE k \in 1..Len(i.calls) : i.calls[k].verb = "setStatus"
                ELSE Len(i.calls) + 1
    IN SubSeq(i.calls, 2, stop - 1)

AllPending(reads) == \A k \in 1..Len(reads) : reads[k].out = "ok" /\ reads[k].val = "backfilling"

IsTargetRead(c) == c.out = "ok" /\ c.val \in {"enabled", "disabledByUser", "disabledBySystem"}

\* The refreshes that fit in the budget: the first after Delay, then one per MinTimeout.
MaxPollReads == (CreateTimeout - Delay) \div MinTimeout + 1

\* C2: in an audit-stream Create, when the poll has read Backfilling N times
\* and then a target status, these N+1 reads are all the reads of the poll
\* and the poll has reported success (the handler has moved on to the status
\* update with no error); this for every N with N+1 reads inside the budget.
C2_PollReadsUntilTarget ==
    \A p \in Procs :
        IsAuditCreate(p) =>
            LET reads == PollReads(inv[p]) IN
            \A n \in 0..(MaxPollReads - 1) :
                (Len(reads) > n /\ AllPending(SubSeq(reads, 1, n)) /\ IsTargetRead(reads[n + 1])) =>
                    /\ Len(reads) = n + 1
                    /\ inv[p].pc \in {"setStatus", "read", "done"}
                    /\ inv[p].pc = "setStatus" => ~IsErr(inv[p].err)
                    /\ inv[p].pc # "setStatus" => CountCalls(p, "setStatus") = 1

C2_Witness ==
    \E p \in Procs :
        /\ IsAuditCreate(p) /\ inv[p].pc = "setStatus"
        /\ Len(PollReads(inv[p])) = MaxPollReads
        /\ AllPending(SubSeq(PollReads(inv[p]), 1, MaxPollReads - 1))
        /\ IsTargetRead(PollReads(inv[p])[MaxPollReads])

TimedOut(i) == IsErr(i.err) /\ i.err.chain[Len(i.err.chain)] = <<"new", "timeout while waiting for state">>

\* C3: in an audit-stream Create whose poll reads nothing but Backfilling, the
\* poll stays inside the budget (its reads are at most those that fit, none
\* is issued after the timeout); once the budget is used up the handler
\* returns the Timeout error, and from then on the invocation can take no
\* step: no read, no status update and no delete was or will be issued.
C3_TimeoutEndsPoll ==
    \A p \in Procs :
        (IsAuditCreate(p) /\ Len(inv[p].calls) >= 1 /\ inv[p].calls[1].out = "ok"
            /\ AllPending(PollReads(inv[p])) /\ Len(inv[p].calls) = 1 + Len(PollReads(inv[p]))) =>
            /\ Len(PollReads(inv[p])) <= MaxPollReads
            /\ inv[p].pc \in {"poll", "done"}
            /\ inv[p].pc = "poll" =>
                /\ inv[p].tmp.now <= CreateTimeout
                /\ Len(PollReads(inv[p])) = MaxPollReads => (ENABLED AuditPollTimeout(p) /\ ~ENABLED AuditPollRead(p))
            /\ inv[p].pc = "done" =>
                /\ TimedOut(inv[p])
                /\ Len(PollReads(inv[p])) = MaxPollReads
                /\ CountCalls(p, "setStatus") = 0 /\ CountCalls(p, "delete") = 0
                /\ ~ENABLED AuditStep(p)

C3_Witness ==
    \E p \in Procs :
        /\ IsAuditCreate(p) /\ inv[p].pc = "done" /\ TimedOut(inv[p])
        /\ Len(PollReads(inv[p])) = MaxPollReads

\* C4 (as claimed): an audit-stream Create whose remote create succeeded and
\* whose poll timed out returns an error and keeps the Identifier the create
\* call assigned.
C4_IdentifierRetainedOnTimeout ==
    \A p \in Procs :
        (IsAuditCreate(p) /\ inv[p].pc = "done" /\ TimedOut(inv[p])) =>
            /\ IsErr(inv[p].err)
            /\ inv[p].id # ""
            /\ inv[p].id = inv[p].calls[1].val

\* C5: a Read of a feed, an audit stream or a group entitlement whose fetch
\* answered NotFound returns no error and leaves the Identifier empty.
C5_ReadNotFoundClears ==
    \A p \in Procs :
        (inv[p].kind \in {"feed", "audit", "ge"} /\ inv[p].op = "Read"
            /\ Len(inv[p].calls) >= 1 /\ inv[p].calls[Len(inv[p].calls)] = Call("get", "NotFound", "")) =>
            /\ inv[p].pc = "done"
            /\ ~IsErr(inv[p].err)
            /\ inv[p].id = ""

C5_Witness ==
    \E p \in Procs :
        /\ inv[p].kind = "ge" /\ inv[p].op = "Read" /\ inv[p].pc = "done"
        /\ inv[p].id0 # "" /\ inv[p].id = ""
        /\ inv[p].calls = <<Call("get", "NotFound", "")>>

Conflict == ErrNew("feed Permission already exists")

\* C6: a permission Create whose read of the grant collection found an entry
\* for the resolved principal fails with the Conflict error, issues no
\* setGrants call and leaves the Identifier empty.
C6_CreateConflict ==
    \A p \in Procs :
        (IsPerm(p, "Create") /\ Len(inv[p].calls) >= 3 /\ inv[p].calls[3] = Call("listGrants", "ok", "hit")) =>
            /\ inv[p].pc = "done"
            /\ inv[p].err = Conflict
            /\ CountCalls(p, "setGrants") = 0
            /\ inv[p].id = ""

C6_Witness ==
    \E p \in Procs :
        /\ IsPerm(p, "Create") /\ inv[p].pc = "done" /\ inv[p].err = Conflict
        /\ FirstMatch(grants, IdentityOf(StorageKeyOf(inv[p].d.identity_descriptor)).Descriptor, 1) # 0

BothSet(d) == d.principal_name # EmptyStr /\ d.origin_id # ""

\* C7: encoding declared group-entitlement fields with principal_name and
\* origin_id both non-empty fails with the validation error, and a Create
\* with such fields issues no Gateway call, returns that error and leaves the
\* Identifier as it was.
C7_BothSetRejected ==
    \A p \in Procs :
        (inv[p].kind = "ge" /\ inv[p].op = "Create" /\ BothSet(inv[p].d0)) =>
            /\ IsErr(expandGroupEntitlement(inv[p].d0).err)
            /\ inv[p].calls = <<>>
            /\ inv[p].id = inv[p].id0
            /\ inv[p].pc \in {"create", "done"}
            /\ inv[p].pc = "done" =>
                inv[p].err = Errorf("Creating group entitlement", ErrNew("Both origin_id and principal_name set"))

C7_Witness ==
    \E p \in Procs :
        /\ inv[p].kind = "ge" /\ inv[p].op = "Create" /\ inv[p].pc = "done"
        /\ BothSet(inv[p].d0) /\ IsErr(inv[p].err)

\* The fields encode produces, of a remote entity and of an encoded one.
\* An absent origin id reads back as the empty string.
ManagedGE(r) ==
    [Origin |-> r.Origin, OriginId |-> IF r.OriginId = "nil" THEN "" ELSE r.OriginId,
     DisplayName |-> r.DisplayName, PrincipalName |-> r.PrincipalName,
     AccountLicenseType |-> r.AccountLicenseType, LicensingSource |-> r.LicensingSource]

ManagedSplunk(r) ==
    [Id |-> r.Id, ConsumerType |-> r.ConsumerType, SplunkUrl |-> r.SplunkUrl,
     SplunkEventCollectorToken |-> r.SplunkEventCollectorToken, days |-> r.days]

RoundTrips ==
    /\ ~IsErr(rt.x.err)
    /\ IF rt.kind = "ge" THEN ManagedGE(rt.x.v) = ManagedGE(rt.r)
       ELSE ManagedSplunk(rt.x.v) = ManagedSplunk(rt.r)

GEFaithful(r) ==
    LET oid == IF r.OriginId = "nil" THEN "" ELSE r.OriginId IN
    /\ ~(oid # "" /\ r.PrincipalName # EmptyStr)
    /\ ~(oid = "" /\ r.PrincipalName = EmptyStr /\ r.DisplayName = "")
    /\ oid # "" => r.Origin # ""
    /\ Contains(r.PrincipalName) => r.DisplayName = r.PrincipalName[2]

AllOk(i) == \A k \in 1..Len(i.calls) : i.calls[k].out = "ok"

\* C9: a permission Delete that runs right after a Delete for the same
\* principal returned without error, against a Gateway that accepts its
\* calls, returns no error and leaves the grant collection as the first
\* Delete left it.
C9_DeleteTwice ==
    \A p \in Procs :
        (IsPerm(p, "Delete") /\ inv[p].prev = inv[p].d.identity_descriptor
            /\ AllOk(inv[p]) /\ inv[p].pc \in {"done", "panic"}) =>
            /\ inv[p].pc = "done"
            /\ ~IsErr(inv[p].err)
            /\ CountCalls(p, "setGrants") = 1
            /\ grants = inv[p].tmp.grants0

C9_Witness ==
    \E p \in Procs :
        /\ IsPerm(p, "Delete") /\ inv[p].prev = inv[p].d.identity_descriptor
        /\ AllOk(inv[p]) /\ inv[p].pc = "done" /\ CountCalls(p, "setGrants") = 1
        /\ ~noneRemoves

\* A read is a call that fetches (the entity, or its change record); NotFound
\* on it is the one failure a handler may answer with success.
NotFoundOnRead(c) == c.out = "NotFound" /\ c.verb \in {"get", "queryChange"}

\* C10 (as claimed): when a Gateway call of a Create, Read, Update or Delete
\* fails, NotFound on a read apart, the operation returns an error that
\* carries the failure's message.
C10_ErrorsNotSwallowed ==
    \A p \in Procs :
        (inv[p].kind \in {"feed", "audit", "ge"} /\ inv[p].pc = "done") =>
            \A k \in 1..Len(inv[p].calls) :
                LET c == inv[p].calls[k] IN
                (c.out # "ok" /\ ~NotFoundOnRead(c)) =>
                    /\ IsErr(inv[p].err)
                    /\ Carries(inv[p].err, c.verb, c.out)

\* C11 (as claimed): in a feed Create whose change-record query failed with
\* an error other than NotFound, no create call is issued and the Create
\* returns an error that carries the query's failure.
C11_QueryFailureSurfaced ==
    \A p \in Procs :
        (IsFeedCreate(p) /\ Len(inv[p].calls) >= 1 /\ inv[p].calls[1] = Call("queryChange", "Other", "")) =>
            /\ CountCalls(p, "create") = 0
            /\ inv[p].pc = "done" => Carries(inv[p].err, "queryChange", "Other")

IsAudit(p, op) == inv[p].kind = "audit" /\ inv[p].op = op

\* C12 (as claimed): once the status reconciliation of an audit-stream Create
\* or Update is over, one status-update call was issued when the status of
\* the stream differs from the one the enabled flag implies, and none when
\* the two are equal.
C12_StatusUpdateOnlyOnDifference ==
    \A p \in Procs :
        ((IsAudit(p, "Create") \/ IsAudit(p, "Update")) /\ inv[p].pc = "read") =>
            CountCalls(p, "setStatus") =
                IF inv[p].tmp.status # WantedStatus(inv[p].d.enabled) THEN 1 ELSE 0

\* C13 (as claimed): an audit-stream Update issues its status-update call
\* only after a read of the stream's status has answered a target status.
C13_UpdatePollsBeforeStatus ==
    \A p \in Procs :
        (IsAudit(p, "Update") /\ CountCalls(p, "setStatus") >= 1) =>
            \E k \in 1..Len(inv[p].calls) :
                /\ inv[p].calls[k].verb = "get" /\ IsTargetRead(inv[p].calls[k])
                /\ \A j \in 1..k : inv[p].calls[j].verb # "setStatus"

\* C14 (as claimed): an Update of a feed, an audit stream or a group
\* entitlement invoked with an empty Identifier issues no update call and
\* returns an error.
C14_UpdateNeedsIdentifier ==
    \A p \in Procs :
        (inv[p].kind \in {"feed", "audit", "ge"} /\ inv[p].op = "Update" /\ inv[p].id0 = "") =>
            /\ CountCalls(p, "update") = 0
            /\ inv[p].pc = "done" => IsErr(inv[p].err)

\* C15: a feed Delete with the permanent-delete flag whose soft-delete call
\* succeeded and whose purge call failed has returned, with an error that
\* carries the purge's failure.
C15_PurgeFailureSurfaced ==
    \A p \in Procs :
        (inv[p].kind = "feed" /\ inv[p].op = "Delete" /\ Len(inv[p].calls) = 2
            /\ inv[p].calls[1] = Call("delete", "ok", "")
            /\ inv[p].calls[2].verb = "purge" /\ inv[p].calls[2].out # "ok") =>
            /\ inv[p].d.permanent_delete
            /\ inv[p].pc = "done"
            /\ IsErr(inv[p].err)
            /\ Carries(inv[p].err, "purge", inv[p].calls[2].out)

C15_Witness ==
    \E p \in Procs :
        /\ inv[p].kind = "feed" /\ inv[p].op = "Delete" /\ inv[p].d.permanent_delete
        /\ inv[p].calls = <<Call("delete", "ok", ""), Call("purge", "NotFound", "")>>
        /\ inv[p].pc = "done" /\ IsErr(inv[p].err)

\* The resolution an operation starts with: its first two calls.
FirstResolveNotFound(i) ==
    \/ Len(i.calls) >= 1 /\ i.calls[1] = Call("resolveKey", "NotFound", "")
    \/ Len(i.calls) >= 2 /\ i.calls[2] = Call("resolveIdentity", "NotFound", "")

\* C16 (as claimed): a permission Create, Read, Update or Delete whose
\* resolution of the principal answered NotFound returns an error, without
\* crashing, and issues no setGrants call.
C16_ResolveNotFoundIsFatal ==
    \A p \in Procs :
        (inv[p].kind = "perm" /\ FirstResolveNotFound(inv[p])) =>
            /\ inv[p].pc = "done"
            /\ IsErr(inv[p].err)
            /\ CountCalls(p, "setGrants") = 0

IsResolve(c) == c.verb \in {"resolveKey", "resolveIdentity"}

\* C17: in every permission operation the identity read is issued right
\* after a storage-key lookup that succeeded and never otherwise; when the
\* resolution's last call answered NotFound the resolution has failed with
\* an error classified NotFound and no principal, when it answered another
\* failure with an error that is not NotFound; and a principal is there only
\* after a lookup and a read that both succeeded.
C17_ResolveComposesTwoCalls ==
    \A p \in Procs :
        inv[p].kind = "perm" =>
            LET c == inv[p].calls
                n == Len(c)
            IN
            /\ \A k \in 1..n :
                c[k].verb = "resolveIdentity" => (k > 1 /\ c[k - 1] = Call("resolveKey", "ok", ""))
            /\ \A k \in 1..n :
                (c[k].verb = "resolveKey" /\ c[k].out = "ok" /\ k < n) => c[k + 1].verb = "resolveIdentity"
            /\ (n >= 1 /\ IsResolve(c[n]) /\ c[n].out = "NotFound") =>
                /\ ResponseWasNotFound(inv[p].tmp.rerr)
                /\ inv[p].tmp.ident = NilIdentity
            /\ (n >= 1 /\ IsResolve(c[n]) /\ c[n].out = "Other") =>
                /\ IsErr(inv[p].tmp.rerr) /\ ~ResponseWasNotFound(inv[p].tmp.rerr)
                /\ inv[p].tmp.ident = NilIdentity
            /\ inv[p].tmp.ident # NilIdentity =>
                /\ ~IsErr(inv[p].tmp.rerr)
                /\ \E k \in 1..(n - 1) :
                    /\ c[k] = Call("resolveKey", "ok", "")
                    /\ c[k + 1] = Call("resolveIdentity", "ok", "")
                    /\ \A j \in (k + 2)..n : ~IsResolve(c[j])
                /\ inv[p].tmp.ident = IdentityOf(StorageKeyOf(inv[p].d.identity_descriptor))

C17_Witness ==
    \E p \in Procs :
        /\ inv[p].kind = "perm" /\ Len(inv[p].calls) = 2
        /\ inv[p].calls[2] = Call("resolveIdentity", "NotFound", "")
        /\ ResponseWasNotFound(inv[p].tmp.rerr)

\* The places of the collection whose descriptor is the resolved principal's.
Matches == {k \in 1..Len(rt.g) : rt.g[k].desc = rt.desc}

\* C18: the selection over a grant collection returns the entry at the first
\* place, in collection order, whose descriptor is the resolved principal's,
\* with no error; when no entry matches, the empty collection included, it
\* returns no entry and the NotFound-classified error it builds itself.
C18_FirstMatchOrNotFound ==
    rt.phase = "out" =>
        IF Matches = {}
        THEN /\ rt.res.permission = 0
             /\ ResponseWasNotFound(rt.res.err)
             /\ rt.res.err = PermissionNotFound
        ELSE /\ rt.res.permission \in Matches
             /\ \A k \in Matches : rt.res.permission <= k
             /\ rt.res.err = Nil

C18_Witness ==
    /\ rt.phase = "out" /\ Len(rt.g) = 3
    /\ Matches = {2, 3} /\ rt.g[2].role # rt.g[3].role
    /\ rt.res.permission = 2

\* The candidates of a lookup by name: the identities ReadIdentities answered
\* with, or the groups whose provider display name is the name asked for.
Candidates(i) ==
    IF i.kind = "import"
    THEN CASE i.calls[1].val = "0" -> 0 [] i.calls[1].val = "1" -> 1 [] OTHER -> 2
    ELSE Cardinality({k \in 1..Len(i.calls[1].val) :
                        EqualFold(i.calls[1].val[k].ProviderDisplayName, i.d.name)})

\* C19 (as claimed): a group-entitlement import or an identity-group read
\* whose lookup by name answered with more than one candidate returns an
\* error and selects none of them (the Identifier is left as it was).
C19_AmbiguousLookupFails ==
    \A p \in Procs :
        (inv[p].kind \in {"import", "group"} /\ inv[p].pc = "done"
            /\ Len(inv[p].calls) = 1 /\ inv[p].calls[1].out = "ok" /\ Candidates(inv[p]) > 1) =>
            /\ IsErr(inv[p].err)
            /\ inv[p].id = inv[p].id0

SetGrantsCalls(i) == {k \in 1..Len(i.calls) : i.calls[k].verb = "setGrants"}

\* C20: a permission Delete issues nothing but the two calls of the
\* resolution and setGrants (no removal call, no read of the grant
\* collection); it issues setGrants at most once, exactly once when it has
\* returned after a resolution that succeeded, always with role None and the
\* resolved principal; and when it has returned the Identifier is empty if
\* that setGrants call succeeded and is the one it was invoked with otherwise.
C20_DeleteRevokesByRoleNone ==
    \A p \in Procs :
        IsPerm(p, "Delete") =>
            LET i == inv[p]
                sent == SetGrantsCalls(i)
                resolved == Len(i.calls) >= 2 /\ i.calls[2] = Call("resolveIdentity", "ok", "")
            IN
            /\ \A k \in 1..Len(i.calls) : i.calls[k].verb \in {"resolveKey", "resolveIdentity", "setGrants"}
            /\ Cardinality(sent) <= 1
            /\ \A k \in sent :
                /\ i.calls[k].val = "none"
                /\ resolved /\ k = 3
                /\ i.tmp.ident = IdentityOf(StorageKeyOf(i.d.identity_descriptor))
            /\ (i.pc = "done" /\ resolved) => Cardinality(sent) = 1
            /\ i.pc = "done" =>
                IF \E k \in sent : i.calls[k].out = "ok"
                THEN i.id = "" /\ ~IsErr(i.err)
                ELSE i.id = i.id0 /\ IsErr(i.err)
            /\ i.pc # "done" => i.id = i.id0

C20_Witness ==
    \E p \in Procs :
        /\ IsPerm(p, "Delete") /\ inv[p].pc = "done" /\ ~IsErr(inv[p].err)
        /\ inv[p].calls[3] = Call("setGrants", "ok", "none")
        /\ inv[p].id0 # "" /\ inv[p].id = ""

\* The calls of a successful lookup of the principal's grant.
LookupHit == <<Call("resolveKey", "ok", ""), Call("resolveIdentity", "ok", ""), Call("listGrants", "ok", "hit")>>

\* C21: a permission Update resolves the principal and reads the grant
\* collection before anything else; when the selection finds no grant of the
\* principal it returns an error and issues no setGrants call; it issues
\* setGrants at most once, only after a lookup that found the grant, with the
\* declared role, and a successful setGrants leaves the collection as the
\* remote set of the resolved principal to that role makes it.
C21_UpdateSetsDeclaredRole ==
    \A p \in Procs :
        IsPerm(p, "Update") =>
            LET i == inv[p]
                sent == SetGrantsCalls(i)
                desc == IdentityOf(StorageKeyOf(i.d.identity_descriptor)).Descriptor
            IN
            /\ (Len(i.calls) >= 3 /\ i.calls[3] = Call("listGrants", "ok", "miss")) =>
                /\ i.pc = "done"
                /\ IsErr(i.err)
                /\ sent = {}
            /\ Cardinality(sent) <= 1
            /\ \A k \in sent :
                /\ k = 4
                /\ SubSeq(i.calls, 1, 3) = LookupHit
                /\ i.calls[k].val = i.d0.role
                /\ i.calls[k].out = "ok" => grants = Upsert(i.tmp.grants0, desc, i.d0.role)
                /\ i.calls[k].out # "ok" => (grants = i.tmp.grants0 /\ i.pc = "done" /\ IsErr(i.err))

C21_Witness ==
    \E p \in Procs :
        /\ IsPerm(p, "Update") /\ inv[p].pc = "done" /\ ~IsErr(inv[p].err)
        /\ CountCalls(p, "setGrants") = 1
        /\ inv[p].d0.role = "administrator"
        /\ Len(grants) = 2

\* C22: whatever permission Create, Update and Delete invocations have run or
\* are running, one after the other or interleaved, the feed's grant
\* collection holds at most one grant per principal.
C22_OneGrantPerPrincipal == Unique(grants)

C22_Witness ==
    /\ \A p \in Procs :
        /\ IsPerm(p, "Create") /\ inv[p].d.identity_descriptor = "u1"
        /\ inv[p].pc = "done" /\ ~IsErr(inv[p].err)
        /\ CountCalls(p, "setGrants") = 1
    /\ Cardinality({k \in 1..Len(grants) : grants[k].desc = IdentityOf(StorageKeyOf("u1")).Descriptor}) = 1
    /\ Len(grants) = 3

MutatingVerbs == {"create", "restore", "update", "delete", "purge", "setStatus", "setGrants"}

Count(i, verb) == Cardinality({k \in 1..Len(i.calls) : i.calls[k].verb = verb})

PollEndedInFailure(p) ==
    /\ IsAuditCreate(p) /\ inv[p].pc = "done"
    /\ Len(inv[p].calls) >= 1 /\ inv[p].calls[1].verb = "create" /\ inv[p].calls[1].out = "ok"
    /\ Count(inv[p], "setStatus") = 0

\* C24: when the poll that follows a successful audit-stream create ends in
\* timeout or error, the invocation has returned an error, has issued no
\* delete call (nothing but the reads of the poll follows the create call)
\* and issues no call afterwards.
C24_FailedPollLeavesStream ==
    \A p \in Procs :
        PollEndedInFailure(p) =>
            /\ IsErr(inv[p].err)
            /\ Count(inv[p], "delete") = 0
            /\ \A k \in 2..Len(inv[p].calls) : inv[p].calls[k].verb = "get"
            /\ ~ENABLED AuditStep(p)

C24_Witness ==
    \E p \in Procs :
        /\ PollEndedInFailure(p)
        /\ Len(inv[p].calls) = 3
        /\ inv[p].calls[2] = Call("get", "ok", "backfilling")
        /\ inv[p].calls[3] = Call("get", "Other", "")

Returned(p, kinds, op) == inv[p].kind \in kinds /\ inv[p].op = op /\ inv[p].pc = "done"

\* C25 (as claimed): a Create of a feed, an audit stream, a group entitlement
\* or a feed permission that has returned without error has a non-empty Identifier,
\* also when the read that follows the mutation answered NotFound.
C25_CreateSetsIdentifier ==
    \A p \in Procs :
        (Returned(p, {"feed", "audit", "ge", "perm"}, "Create") /\ ~IsErr(inv[p].err)) =>
            inv[p].id # ""

\* C26 (as claimed): a Delete of a feed, a feed permission or an audit stream that has returned
\* without error has an empty Identifier, and one of whose calls failed has
\* the Identifier it was invoked with.
C26_DeleteClearsIdentifier ==
    \A p \in Procs :
        Returned(p, {"feed", "audit", "perm"}, "Delete") =>
            /\ ~IsErr(inv[p].err) => inv[p].id = ""
            /\ ~AllOk(inv[p]) => inv[p].id = inv[p].id0

\* C27: a Delete of a feed, an audit stream or a group entitlement whose
\* remote delete call answered NotFound has returned, with an error that
\* carries the failure.
C27_DeleteNotFoundIsFatal ==
    \A p \in Procs :
        (inv[p].kind \in {"feed", "audit", "ge"} /\ inv[p].op = "Delete"
            /\ Len(inv[p].calls) >= 1 /\ inv[p].calls[1] = Call("delete", "NotFound", "")) =>
            /\ inv[p].pc = "done"
            /\ IsErr(inv[p].err)
            /\ Carries(inv[p].err, "delete", "NotFound")
            /\ Len(inv[p].calls) = 1

C27_Witness ==
    \E p \in Procs :
        /\ Returned(p, {"feed"}, "Delete") /\ inv[p].d.permanent_delete
        /\ inv[p].calls = <<Call("delete", "NotFound", "")>>
        /\ IsErr(inv[p].err)

C29_ReadKeepsIdentifier ==
    \A p \in Procs :
        (Returned(p, {"feed", "audit", "ge"}, "Read") /\ ~IsErr(inv[p].err) /\ inv[p].id0 # "") =>
            inv[p].id \in {inv[p].id0, ""}

\* A read of the poll that WaitForState cannot go on from: the read failed,
\* or the status is neither pending nor a target.
IsBadRead(c) == c.out # "ok" \/ c.val \notin {"backfilling", "enabled", "disabledByUser", "disabledBySystem"}

\* C30: an audit-stream Create that has returned without error has a poll
\* whose last read answered a target status; a poll read that failed or that
\* answered a status neither pending nor target has made the Create return
\* an error at once, with no status-update call; and a status-update call
\* comes right after a poll read that answered a target status.
C30_SuccessOnlyAfterTarget ==
    \A p \in Procs :
        IsAuditCreate(p) =>
            LET i == inv[p]
                reads == PollReads(i)
            IN
            /\ (i.pc = "done" /\ ~IsErr(i.err)) =>
                (Len(reads) >= 1 /\ IsTargetRead(reads[Len(reads)]))
            /\ \A k \in 1..Len(reads) :
                IsBadRead(reads[k]) =>
                    /\ k = Len(reads) /\ Len(i.calls) = k + 1
                    /\ i.pc = "done" /\ IsErr(i.err)
                    /\ Count(i, "setStatus") = 0
            /\ \A k \in 1..Len(i.calls) :
                i.calls[k].verb = "setStatus" =>
                    (k > 2 /\ i.calls[k - 1].verb = "get" /\ IsTargetRead(i.calls[k - 1]))

C30_Witness ==
    \E p \in Procs :
        /\ IsAuditCreate(p) /\ inv[p].pc = "done" /\ IsErr(inv[p].err)
        /\ inv[p].calls = <<Call("create", "ok", "1"), Call("get", "ok", "backfilling"), Call("get", "ok", "unknown")>>

IsFeedDelete(p) == inv[p].kind = "feed" /\ inv[p].op = "Delete"

\* C31: a feed Delete issues the purge call at most once, only with the
\* permanent-delete flag set and right after the soft-delete call of the
\* same invocation has succeeded; with the flag unset, or when the
\* soft-delete fails, it issues no purge call, and when the soft-delete
\* fails it returns with the Identifier as it was.
C31_PurgeOnlyAfterSoftDelete ==
    \A p \in Procs :
        IsFeedDelete(p) =>
            LET i == inv[p] IN
            /\ Count(i, "purge") <= 1
            /\ \A k \in 1..Len(i.calls) :
                i.calls[k].verb = "purge" =>
                    /\ i.d0.permanent_delete
                    /\ k = 2 /\ i.calls[1] = Call("delete", "ok", "")
            /\ ~i.d0.permanent_delete => Count(i, "purge") = 0
            /\ (Len(i.calls) >= 1 /\ i.calls[1].out # "ok") =>
                /\ i.pc = "done" /\ Len(i.calls) = 1
                /\ i.id = i.id0

C31_Witness ==
    \E p \in Procs :
        /\ IsFeedDelete(p) /\ inv[p].pc = "done" /\ inv[p].d0.permanent_delete
        /\ inv[p].id0 # "" /\ inv[p].id = ""
        /\ inv[p].calls = <<Call("delete", "ok", ""), Call("purge", "ok", "")>>

\* C32: a feed Create whose change record is a soft-delete and whose
\* restore call failed has returned an error, has issued no create call and
\* no read, and has left the Identifier empty and the restored flag unset.
C32_NoFallbackToCreate ==
    \A p \in Procs :
        LET i == inv[p] IN
        (/\ IsFeedCreate(p)
         /\ Len(i.calls) >= 2
         /\ i.calls[1] = Call("queryChange", "ok", "delete")
         /\ i.calls[2].verb = "restore" /\ i.calls[2].out # "ok") =>
            /\ i.pc = "done" /\ IsErr(i.err)
            /\ Len(i.calls) = 2
            /\ Count(i, "create") = 0 /\ Count(i, "get") = 0
            /\ i.id = "" /\ i.d.restored = "unset"

C32_Witness ==
    \E p \in Procs :
        /\ IsFeedCreate(p) /\ inv[p].pc = "done"
        /\ inv[p].calls = <<Call("queryChange", "ok", "delete"), Call("restore", "Other", "")>>
        /\ Carries(inv[p].err, "restore", "Other")

DescriptorOf(i) == IdentityOf(StorageKeyOf(i.d.identity_descriptor)).Descriptor

ReturnedOk(p) == inv[p].pc = "done" /\ ~IsErr(inv[p].err)

\* C33 (as claimed): of two permission Creates for one feed and principal
\* that run at once, at most one returns without error; and a Create that
\* has passed its existence check and is about to call setGrants still faces
\* a collection with no entry for its principal.
C33_ConcurrentCreatesExclude ==
    \A p, q \in Procs :
        (/\ p # q /\ IsPerm(p, "Create") /\ IsPerm(q, "Create")
         /\ inv[p].d.identity_descriptor = inv[q].d.identity_descriptor) =>
            /\ ~(ReturnedOk(p) /\ ReturnedOk(q))
            /\ (inv[p].pc = "setGrants" /\ inv[p].tmp.phase = "main") =>
                FirstMatch(grants, DescriptorOf(inv[p]), 1) = 0

LookupAnswered(i) ==
    /\ Len(i.calls) >= 3
    /\ \A k \in 1..3 : i.calls[k].out = "ok"

ListedWithNone(g, desc) == \E k \in 1..Len(g) : g[k] = Grant(desc, "none")

\* C34: a permission Create that runs right after a Delete for the same
\* principal returned without error, and whose lookup the Gateway answered
\* with a grant collection that still lists the principal with role None,
\* has returned the Conflict error, has issued no setGrants call and has
\* left the Identifier empty and the collection as it was.
C34_ConflictIgnoresRole ==
    \A p \in Procs :
        LET i == inv[p] IN
        (/\ IsPerm(p, "Create") /\ i.prev = i.d.identity_descriptor
         /\ ListedWithNone(i.tmp.grants0, DescriptorOf(i))
         /\ LookupAnswered(i)) =>
            /\ i.pc = "done" /\ i.err = Conflict
            /\ CountCalls(p, "setGrants") = 0
            /\ i.id = "" /\ grants = i.tmp.grants0

C34_Witness ==
    \E p \in Procs :
        /\ IsPerm(p, "Create") /\ inv[p].prev = inv[p].d.identity_descriptor
        /\ ListedWithNone(grants, DescriptorOf(inv[p]))
        /\ LookupAnswered(inv[p])
        /\ inv[p].pc = "done" /\ inv[p].err = Conflict

IsGE(p, op) == inv[p].kind = "ge" /\ inv[p].op = op

\* C35: a group-entitlement Create or Update whose add or update call the
\* Gateway answered without error but with a first operation result that is
\* not successful has returned an error right after that call, has made no
\* read, and has left the Identifier as it was.
C35_UnsuccessfulResultIsFailure ==
    \A p \in Procs :
        (IsGE(p, "Create") \/ IsGE(p, "Update")) =>
            LET i == inv[p] IN
            \A k \in 1..Len(i.calls) :
                (i.calls[k].verb \in {"create", "update"} /\ i.calls[k].out = "ok" /\ i.calls[k].val = "failed") =>
                    /\ i.pc = "done" /\ IsErr(i.err)
                    /\ k = Len(i.calls) /\ Count(i, "get") = 0
                    /\ i.id = i.id0

C35_Witness ==
    \E p \in Procs :
        /\ IsGE(p, "Update") /\ inv[p].pc = "done" /\ IsErr(inv[p].err)
        /\ inv[p].calls = <<Call("update", "ok", "failed")>>
        /\ inv[p].id = inv[p].id0

\* C36: a group-entitlement Delete invoked with an empty Identifier issues no
\* Gateway call and returns no error; invoked with a non-empty Identifier
\* that is no UUID it issues no Gateway call and returns an error.
C36_DeleteWithoutUuid ==
    \A p \in Procs :
        IsGE(p, "Delete") =>
            LET i == inv[p] IN
            /\ i.id0 = "" => (i.calls = <<>> /\ (i.pc = "done" => ~IsErr(i.err)))
            /\ (i.id0 # "" /\ i.id0 \notin {UuidString(n) : n \in GENums}) =>
                (i.calls = <<>> /\ (i.pc = "done" => IsErr(i.err)))

C36_Witness ==
    \E p \in Procs :
        /\ IsGE(p, "Delete") /\ inv[p].id0 = "junk"
        /\ inv[p].pc = "done" /\ IsErr(inv[p].err) /\ inv[p].calls = <<>>

\* C37: encoding group-entitlement fields whose principal_name holds a
\* backslash gives, when it succeeds, the segment between the first and the
\* second backslash as DisplayName, whatever display_name declares; without
\* a backslash it gives the declared display_name; and it fails when
\* origin_id, principal_name and that display name are all empty, and when
\* origin_id is set and origin is not.
C37_DisplayNameFromPrincipalName ==
    (rt.kind = "ge" /\ rt.phase = "out") =>
        LET d == rt.d
            x == rt.x
            backslash == Len(d.principal_name) >= 2
        IN
        /\ (~IsErr(x.err) /\ backslash) => x.v.DisplayName = d.principal_name[2]
        /\ (~IsErr(x.err) /\ ~backslash) => x.v.DisplayName = d.display_name
        /\ (d.origin_id = "" /\ d.principal_name = <<"">> /\ d.display_name = "") => IsErr(x.err)
        /\ (d.origin_id # "" /\ d.origin = "") => IsErr(x.err)

C37_Witness ==
    /\ rt.kind = "ge" /\ rt.phase = "out"
    /\ rt.d.principal_name = <<"[proj]", "grp", "x">> /\ rt.d.display_name = "other"
    /\ ~IsErr(rt.x.err) /\ rt.x.v.DisplayName = "grp"

\* The spellings of one value, and the values that count as one license.
SpellingsOfOneValue ==
    {{"advanced", "Advanced"}, {"earlyAdopter", "EARLYADOPTER"}, {"express", "Express"},
     {"basic", "Basic"}, {"none", "NONE"}, {"professional", "Professional"},
     {"stakeholder", "Stakeholder"}}

BasicClass == {"earlyAdopter", "EARLYADOPTER", "express", "Express", "basic", "Basic"}

\* C38: the diff suppression of account_license_type is reflexive, symmetric
\* and transitive over the admitted values, and it suppresses the difference
\* between two values exactly when they are spellings of one value or are
\* both among earlyAdopter, express and basic.
C38_SuppressionIsEquivalence ==
    (rt.kind = "diff" /\ rt.phase = "out") =>
        /\ rt.s.aa
        /\ rt.s.ab = rt.s.ba
        /\ (rt.s.ab /\ rt.s.bc) => rt.s.ac
        /\ rt.s.ab <=>
            \/ \E S \in SpellingsOfOneValue : rt.a \in S /\ rt.b \in S
            \/ rt.a \in BasicClass /\ rt.b \in BasicClass

C38_Witness ==
    /\ rt.kind = "diff" /\ rt.phase = "out"
    /\ rt.a = "Basic" /\ rt.b = "earlyAdopter" /\ rt.c = "Express"
    /\ rt.s.ab /\ rt.s.bc /\ rt.s.ac

====
